---- MODULE Spec2Model ----
(***************************************************************************)
(* Model of the job_hunter discovery/triage pipeline:                      *)
(*   - the card-view Scoring Engine   (scrapers/site_adapter.py)           *)
(*   - total-count / page-size resolution and the Pagination Controller    *)
(*   - the Dedup/Upsert Gateway       (scrape_site_summary._upsert_card)   *)
(*   - the Two-Pass Orchestrator      (main_scraper.py: main)              *)
(*                                                                         *)
(* Scores are Python floats in the code.  They are represented here as     *)
(* integers counting halves (ToFloat(3) = 6 stands for 3.0, 5 for 2.5), so *)
(* that the final int(round(score)) is a real conversion with ties.        *)
(* Optional values (Python None) are sets with at most one element.        *)
(* Strings that are matched against are sequences of one-character         *)
(* strings; identifiers (listing ids, tags) are plain strings and the      *)
(* empty string stands for None/''.                                        *)
(***************************************************************************)
EXTENDS Integers, Sequences, FiniteSets, TLC

VARIABLES
    sc,     \* scoring loop of _apply_card_scoring on one listing
    pg,     \* total-count / page-size / page-count resolution on one rendered page
    run,    \* the orchestrator run: locals of main and of scrape_site_summary
    db      \* the Job_Listings table

vars == <<sc, pg, run, db>>

(***************************************************************************)
(* Bounds of the model.                                                    *)
(***************************************************************************)
MaxCriteria == 2        \* criteria rows evaluated in one scoring pass
MaxItems == 2           \* items of one criterion

None == {}
Some(v) == {v}
IsNone(o) == o = {}
Val(o) == CHOOSE v \in o : TRUE

Min2(a, b) == IF a <= b THEN a ELSE b
Max2(a, b) == IF a >= b THEN a ELSE b

(***************************************************************************)
(* Text.                                                                   *)
(***************************************************************************)
LowerChar(c) ==
    CASE c = "S" -> "s"
      [] c = "M" -> "m"
      [] c = "C" -> "c"
      [] c = "A" -> "a"
      [] OTHER -> c

\* str.lower()
Lower(s) == [i \in 1..Len(s) |-> LowerChar(s[i])]

\* needle in haystack
Contains(h, n) ==
    \E i \in 1..(Len(h) - Len(n) + 1) : SubSeq(h, i, i + Len(n) - 1) = n

StartsWith(h, n) == Len(n) <= Len(h) /\ SubSeq(h, 1, Len(n)) = n

EndsWith(h, n) == Len(n) <= Len(h) /\ SubSeq(h, Len(h) - Len(n) + 1, Len(h)) = n

\* \w of the regex engine, on the characters the model uses
IsWordChar(c) == c # " " /\ c # "-" /\ c # "/"

\* re.search(rf"\b{re.escape(n)}\b", h) for a needle that starts and ends
\* with a word character
WordMatch(h, n) ==
    \E i \in 1..(Len(h) - Len(n) + 1) :
        /\ SubSeq(h, i, i + Len(n) - 1) = n
        /\ (i = 1 \/ ~IsWordChar(h[i - 1]))
        /\ (i + Len(n) - 1 = Len(h) \/ ~IsWordChar(h[i + Len(n)]))

T_SeniorManager == <<"S","e","n","i","o","r"," ","M","a","n","a","g","e","r">>
T_Chef == <<"C","h","e","f">>
T_manager == <<"m","a","n","a","g","e","r">>
T_Manager == <<"M","a","n","a","g","e","r">>
T_senior == <<"s","e","n","i","o","r">>
T_man == <<"m","a","n">>
T_Acme == <<"A","c","m","e">>
T_empty == <<>>

(***************************************************************************)
(* Scoring Engine: _apply_card_scoring.                                    *)
(***************************************************************************)
\* float(n) of an integer n, in halves
ToFloat(n) == 2 * n

\* int(round(x)) of a float x given in halves: nearest integer, ties to even
RoundHalfEven(h) ==
    LET k == h \div 2
    IN  IF h % 2 = 0 THEN k
        ELSE IF k % 2 = 0 THEN k ELSE k + 1

\* field_value(name)
field_value(listing, name) ==
    CASE name = "title" -> listing.title
      [] name = "company" -> listing.company
      [] name \in {"location", "suburb"} -> listing.location
      [] name \in {"url", "link"} -> listing.url
      [] OTHER -> T_empty

\* method synonyms folded to 'contains' before matching
NormMethod(m) ==
    IF m \in {"list", "any", "contains_any", "include", "range"} THEN "contains" ELSE m

\* _match(method, haystack, needle); a regex needle is a literal here
_match(method, haystack, needle) ==
    LET h == Lower(haystack)
        n == Lower(needle)
    IN  CASE method \in {"equals", "exact"} -> h = n
          [] method = "startswith" -> StartsWith(h, n)
          [] method = "endswith" -> EndsWith(h, n)
          [] method \in {"regex", "re"} -> Contains(h, n)
          [] method \in {"word", "wholeword"} -> WordMatch(h, n)
          [] OTHER -> Contains(h, n)

\* whether item it of criterion c is reached and matches the listing
ItemMatches(listing, c, it) ==
    /\ it.value # T_empty
    /\ _match(NormMethod(c.method), field_value(listing, c.field), it.value)

\* enforce_min_after after a matched 'minimum' item
RegisterMinMutant(cur, local_min) ==
    IF IsNone(local_min) THEN cur
    ELSE IF IsNone(cur) THEN local_min
    ELSE Some(Max2(Val(cur), Val(local_min)))

RegisterMin(cur, local_min) ==
    IF IsNone(local_min) THEN cur
    ELSE IF IsNone(cur) THEN local_min
    ELSE Some(Min2(Val(cur), Val(local_min)))

\* the floor registered first is kept
RegisterMaxMutant(cur, local_max) ==
    IF IsNone(local_max) THEN cur
    ELSE IF IsNone(cur) THEN local_max
    ELSE cur

\* enforce_max_after after a matched 'maximum' item
RegisterMax(cur, local_max) ==
    IF IsNone(local_max) THEN cur
    ELSE IF IsNone(cur) THEN local_max
    ELSE Some(Max2(Val(cur), Val(local_max)))

Reason(c, it, effect) == [field |-> c.field, value |-> it.value, effect |-> effect]

\* the configured delta is ignored
DecreaseDeltaMutant(c) == ToFloat(-1)

\* delta = dec if dec is not None else -1.0
DecreaseDelta(c) == IF IsNone(c.dec) THEN ToFloat(-1) ELSE Val(c.dec)

\* a matched 'exclude' item also takes one point off the running score
SetExcludedMutant(st) == [st EXCEPT !.excluded = TRUE, !.score = @ - ToFloat(1)]

\* excluded = True
SetExcluded(st) == [st EXCEPT !.excluded = TRUE]

\* the effect of one matched item on the running state of the pass
ApplyImpact(st, c, it) ==
    CASE it.impact = "numeric" ->
            [st EXCEPT !.score = @ + it.num,
                       !.reasons = Append(@, Reason(c, it, "numeric"))]
      [] it.impact = "increase" ->
            [st EXCEPT !.score = @ + (IF IsNone(c.inc) THEN ToFloat(1) ELSE Val(c.inc)),
                       !.reasons = Append(@, Reason(c, it, "inc"))]
      [] it.impact = "decrease" ->
            [st EXCEPT !.score = @ + DecreaseDelta(c),
                       !.reasons = Append(@, Reason(c, it, "dec"))]
      [] it.impact = "exclude" ->
            [SetExcluded(st) EXCEPT !.reasons = Append(@, Reason(c, it, "EXCLUDE"))]
      [] it.impact = "minimum" ->
            IF IsNone(c.min) THEN st
            ELSE [st EXCEPT !.enforce_min_after = RegisterMin(@, c.min),
                            !.reasons = Append(@, Reason(c, it, "min_cap"))]
      [] it.impact = "maximum" ->
            IF IsNone(c.max) THEN st
            ELSE [st EXCEPT !.enforce_max_after = RegisterMax(@, c.max),
                            !.reasons = Append(@, Reason(c, it, "max_floor"))]
      [] OTHER ->
            [st EXCEPT !.reasons = Append(@, Reason(c, it, "noop"))]

\* for it in c['items']
RECURSIVE ScoreItems(_, _, _, _)
ScoreItems(st, listing, c, i) ==
    IF i > Len(c.items) THEN st
    ELSE LET it == c.items[i]
             nx == IF ItemMatches(listing, c, it) THEN ApplyImpact(st, c, it) ELSE st
         IN  ScoreItems(nx, listing, c, i + 1)

\* one iteration of: for c in criteria_rows
ScoreCriterion(st, listing, c) == ScoreItems(st, listing, c, 1)

\* for c in criteria_rows
RECURSIVE ScoreCriteria(_, _, _, _)
ScoreCriteria(st, listing, rows, k) ==
    IF k > Len(rows) THEN st
    ELSE ScoreCriteria(ScoreCriterion(st, listing, rows[k]), listing, rows, k + 1)

\* state of the pass before the first criterion
\* the running score is carried over from the cards handled before
ScoreStartMutant(base_score) ==
    [score |-> ToFloat(base_score) + ToFloat(run.processed), excluded |-> FALSE,
     reasons |-> <<>>, enforce_min_after |-> None, enforce_max_after |-> None]

ScoreStart(base_score) ==
    [score |-> ToFloat(base_score), excluded |-> FALSE, reasons |-> <<>>,
     enforce_min_after |-> None, enforce_max_after |-> None]

\* post-adjust bounds in the other order: floor-up, then cap-down
ApplyBoundsMutant(st) ==
    LET a == IF IsNone(st.enforce_max_after) THEN st.score
             ELSE Max2(st.score, Val(st.enforce_max_after))
    IN  IF IsNone(st.enforce_min_after) THEN a
        ELSE Min2(a, Val(st.enforce_min_after))

\* global post-adjust bounds, applied in order: cap-down, then floor-up
ApplyBounds(st) ==
    LET a == IF IsNone(st.enforce_min_after) THEN st.score
             ELSE Min2(st.score, Val(st.enforce_min_after))
    IN  IF IsNone(st.enforce_max_after) THEN a
        ELSE Max2(a, Val(st.enforce_max_after))

\* what the pass returns: (final_score, excluded, reasons)
ScoreResult(st) ==
    [score |-> RoundHalfEven(ApplyBounds(st)), excluded |-> st.excluded,
     reasons |-> st.reasons]

_apply_card_scoring(listing, criteria_rows, base_score) ==
    ScoreResult(ScoreCriteria(ScoreStart(base_score), listing, criteria_rows, 1))

(***************************************************************************)
(* The scoring pass as a loop: one criterion at a time, one item at a      *)
(* time, then the post-pass bounds and the rounding.  The list of reason   *)
(* strings is kept as its length.                                          *)
(***************************************************************************)
Listing(t, co) == [title |-> t, company |-> co, location |-> T_empty, url |-> T_empty]

ScoreListings == {Listing(T_SeniorManager, T_Acme), Listing(T_Chef, T_Acme)}

BaseScores == {3}

MinValues == {None, Some(4), Some(7)}
MaxValues == {None, Some(5), Some(8)}

Criterion(f, m, mn, mx) ==
    [field |-> f, method |-> m, min |-> mn, max |-> mx,
     inc |-> None, dec |-> Some(-4), items |-> <<>>]

CriterionHeaders ==
    {Criterion("title", "contains", mn, mx) : mn \in MinValues, mx \in MaxValues}
    \cup {Criterion("title", "equals", Some(4), None)}

ItemPool ==
    {[value |-> T_manager, impact |-> i, num |-> 0] :
        i \in {"minimum", "maximum", "increase", "decrease", "exclude", "noop"}}
    \cup {[value |-> T_Manager, impact |-> "numeric", num |-> 3],
          [value |-> T_Chef, impact |-> "minimum", num |-> 0],
          [value |-> T_empty, impact |-> "exclude", num |-> 0]}

ScIdle ==
    [pc |-> "idle", listing |-> Listing(T_empty, T_empty), st |-> ScoreStart(0),
     c |-> None, nc |-> 0, ni |-> 0, nreasons |-> 0,
     hits |-> "none", hit_dec |-> None,
     ceilings |-> {}, floors |-> {}, out |-> None]

ScInit ==
    \E l \in ScoreListings, b \in BaseScores :
        sc = [ScIdle EXCEPT !.pc = "criterion", !.listing = l, !.st = ScoreStart(b)]

\* for c in criteria_rows: the next row
ScBeginCriterion ==
    /\ sc.pc = "criterion"
    /\ sc.nc < MaxCriteria
    /\ \E c \in CriterionHeaders :
        sc' = [sc EXCEPT !.pc = "items", !.c = Some(c), !.nc = @ + 1, !.ni = 0]
    /\ UNCHANGED <<pg, run, db>>

\* for it in c['items']: the next item
ScItem ==
    /\ sc.pc = "items"
    /\ sc.ni < MaxItems
    /\ \E it \in ItemPool :
        LET c == Val(sc.c)
            hit == ItemMatches(sc.listing, c, it)
            nx == IF hit THEN ApplyImpact(sc.st, c, it) ELSE sc.st
        IN  sc' = [sc EXCEPT
                    !.st = [nx EXCEPT !.reasons = <<>>],
                    !.ni = @ + 1,
                    !.nreasons = @ + Len(nx.reasons),
                    !.hits = IF ~hit THEN @
                             ELSE IF @ = "none" /\ it.impact = "decrease"
                             THEN "one decrease" ELSE "other",
                    !.hit_dec = IF hit /\ sc.hits = "none" /\ it.impact = "decrease"
                                THEN c.dec ELSE @,
                    !.ceilings = IF hit /\ it.impact = "minimum" THEN @ \cup c.min ELSE @,
                    !.floors = IF hit /\ it.impact = "maximum" THEN @ \cup c.max ELSE @]
    /\ UNCHANGED <<pg, run, db>>

\* the item list of the row is exhausted
ScEndCriterion ==
    /\ sc.pc = "items"
    /\ sc' = [sc EXCEPT !.pc = "criterion", !.c = None]
    /\ UNCHANGED <<pg, run, db>>

\* post-pass bounds, rounding, return
ScFinish ==
    /\ sc.pc = "criterion"
    /\ sc' = [sc EXCEPT !.pc = "done", !.out = Some(ScoreResult(sc.st))]
    /\ UNCHANGED <<pg, run, db>>

NextScoring == ScBeginCriterion \/ ScItem \/ ScEndCriterion \/ ScFinish

(***************************************************************************)
(* Total-count resolution, page size and page count (SeekAdapter and the   *)
(* head of scrape_site_summary).  A rendered results page is described by  *)
(* what each source holds: the number in the banner text, the number in    *)
(* the "with N jobs found" meta description, the embedded totalJobCount,   *)
(* the embedded pageSize, and the number of card elements found.           *)
(***************************************************************************)
MaxTotal == 47          \* largest total a source reports
MaxPageSize == 3        \* largest embedded page size besides the default
MaxCardsOnPage == 2     \* card elements found on one results page
DEFAULT_PAGE_SIZE == 22

\* SeekAdapter.parse_total_listings: 1) banner, 2) meta description,
\* 3) embedded totalJobCount, else 0
parse_total_listings(banner, meta, embedded) ==
    IF ~IsNone(banner) THEN Val(banner)
    ELSE IF ~IsNone(meta) THEN Val(meta)
    ELSE IF ~IsNone(embedded) THEN Val(embedded)
    ELSE 0

\* total_reported of scrape_site_summary: the adapter's value, else the
\* number in the banner's innerText read by the injected script
TotalReported(parsed, badge_text) ==
    IF parsed = 0 /\ ~IsNone(badge_text) THEN Val(badge_text) ELSE parsed

\* SeekAdapter.discover_page_size
discover_page_size(embedded_page_size) ==
    IF ~IsNone(embedded_page_size) THEN Val(embedded_page_size) ELSE DEFAULT_PAGE_SIZE

\* page size without the guard against a non-positive value
PageSizeUsedMutant(discovered, cards_found_page1) ==
    IF IsNone(discovered) THEN Max2(cards_found_page1, DEFAULT_PAGE_SIZE)
    ELSE Val(discovered)

\* if page_size is None or page_size <= 0: page_size = max(cards_found_page1, 22)
PageSizeUsed(discovered, cards_found_page1) ==
    IF IsNone(discovered) \/ Val(discovered) <= 0
    THEN Max2(cards_found_page1, DEFAULT_PAGE_SIZE)
    ELSE Val(discovered)

\* int((total_reported + page_size - 1) / page_size) if total_reported
\* else (1 if cards_found_page1 else 0)
TotalPages(total_reported, page_size, cards_found_page1) ==
    IF total_reported # 0
    THEN IF page_size = 0 THEN -1   \* ZeroDivisionError
         ELSE (total_reported + page_size - 1) \div page_size
    ELSE IF cards_found_page1 # 0 THEN 1 ELSE 0

SourceValues == {None} \cup {Some(n) : n \in 0..MaxTotal}
MetaValues == {None, Some(0), Some(12)}
EmbeddedValues == {None, Some(0), Some(7)}
PageSizeValues == {None, Some(DEFAULT_PAGE_SIZE)} \cup {Some(n) : n \in 0..MaxPageSize}
CardCounts == 0..MaxCardsOnPage \cup {DEFAULT_PAGE_SIZE + 1}

PgIdle ==
    [pc |-> "idle", banner |-> None, meta |-> None, embedded |-> None,
     embedded_page_size |-> None, cards_found_page1 |-> 0,
     total_reported |-> 0, page_size |-> 0, total_pages |-> 0]

PgInit ==
    \E b \in SourceValues, m \in MetaValues, e \in EmbeddedValues,
       ps \in PageSizeValues, n \in CardCounts :
        pg = [PgIdle EXCEPT !.pc = "rendered", !.banner = b, !.meta = m,
                            !.embedded = e, !.embedded_page_size = ps,
                            !.cards_found_page1 = n]

\* scrape_site_summary from "Total reported" to the [PAGINATION] line
PgResolve ==
    /\ pg.pc = "rendered"
    /\ LET total == TotalReported(
                        parse_total_listings(pg.banner, pg.meta, pg.embedded),
                        pg.banner)
           size == PageSizeUsed(Some(discover_page_size(pg.embedded_page_size)),
                                pg.cards_found_page1)
       IN  pg' = [pg EXCEPT !.pc = "resolved",
                            !.total_reported = total,
                            !.page_size = size,
                            !.total_pages = TotalPages(total, size, pg.cards_found_page1)]
    /\ UNCHANGED <<sc, run, db>>

NextTotals == PgResolve

(***************************************************************************)
(* The run: main (main_scraper.py) driving scrape_site_summary for every   *)
(* site and keyword, then the deep scan of the keyword.                    *)
(***************************************************************************)
NumSites == 1           \* enabled sites
NumKeywords == 2        \* active keywords
MaxRunCards == 1        \* cards a results page of the run shows
BASE_ENTRY_SCORE == 3
PROVISIONAL_THRESHOLD == BASE_ENTRY_SCORE
DEEP_SCAN_THRESHOLD == 4
DEEP_SCAN_LIMIT_PER_KEYWORD == 50

ListingIds == {"1001", "1002"}
NoId == ""

\* a results card: what each of the four id sources holds, and its texts
Card(h, d, e, g, t) ==
    [href_job_id |-> h, data_job_id |-> d, embedded_job_id |-> e, href_digits |-> g,
     title |-> t, company |-> T_Acme, location |-> T_empty, url |-> T_empty]

CardPool ==
    {Card("1001", NoId, NoId, "1001", T_SeniorManager),
     Card("1002", NoId, NoId, "1002", T_Chef),
     Card(NoId, "1002", NoId, NoId, T_Chef),
     Card(NoId, NoId, "1001", NoId, T_SeniorManager),
     Card(NoId, NoId, NoId, "1002", T_Chef),
     Card(NoId, "1002", "1001", NoId, T_Chef),
     Card(NoId, NoId, NoId, NoId, T_Chef)}

Item(v, i, n) == [value |-> v, impact |-> i, num |-> n]

RowManager ==
    [Criterion("title", "contains", None, None) EXCEPT
        !.items = <<Item(T_manager, "increase", 0)>>]

RowChef ==
    [Criterion("title", "contains", None, None) EXCEPT
        !.items = <<Item(T_Chef, "exclude", 0), Item(T_Chef, "numeric", -4),
                    Item(T_senior, "exclude", 0)>>]

\* contents of the Criteria tables
CriteriaTables == {<<>>, <<RowManager, RowChef>>}

Prefixes(rows) == {SubSeq(rows, 1, n) : n \in 0..Len(rows)}

\* extract_listing_minimal: the listing id, first source that yields one
extract_listing_id(card) ==
    IF card.href_job_id # NoId THEN card.href_job_id
    ELSE IF card.data_job_id # NoId THEN card.data_job_id
    ELSE IF card.embedded_job_id # NoId THEN card.embedded_job_id
    ELSE card.href_digits

extract_listing_minimal(card) ==
    [listing_id |-> extract_listing_id(card), title |-> card.title,
     company |-> card.company, location |-> card.location, url |-> card.url]

\* the card is passed on whatever id was extracted
HasListingIdMutant(listing_id) == TRUE

\* if not listing_id: ... return False
HasListingId(listing_id) == listing_id # NoId

RowsFor(d, site_id, listing_id) ==
    {r \in d : r.listing_id = listing_id /\ r.site_id = site_id}

\* the minimal row written by an insert; status is '' for SQL NULL
NewRow(data, keyword_id, site_id, status) ==
    [listing_id |-> data.listing_id, site_id |-> site_id, keyword_id |-> keyword_id,
     title |-> data.title, company |-> data.company, location |-> data.location,
     url |-> data.url, status |-> status, suitability_score |-> None,
     description |-> "", pay_rate |-> "", closing_date |-> ""]

\* INSERT OR REPLACE: an existing row of the key is overwritten
_direct_upsert_listing_row_replacing(d, data, keyword_id, site_id) ==
    [ok |-> TRUE,
     db |-> (d \ RowsFor(d, site_id, data.listing_id))
                \cup {NewRow(data, keyword_id, site_id, "new")}]

\* INSERT OR IGNORE INTO Job_Listings; rowcount > 0
_direct_upsert_listing_row(d, data, keyword_id, site_id) ==
    IF RowsFor(d, site_id, data.listing_id) = {}
    THEN [ok |-> TRUE, db |-> d \cup {NewRow(data, keyword_id, site_id, "new")}]
    ELSE [ok |-> FALSE, db |-> d]

\* upsert_listing_minimal of the persistence helper, when it reports success:
\* the row is there afterwards, an existing row is left as it is
upsert_listing_minimal(d, data, keyword_id, site_id) ==
    IF RowsFor(d, site_id, data.listing_id) = {}
    THEN d \cup {NewRow(data, keyword_id, site_id, "")}
    ELSE d

\* seen_ids_for_site of the persistence helper
seen_ids_for_site(d, site_id) == {r.listing_id : r \in {x \in d : x.site_id = site_id}}

QueueStatus(queue_deep) == IF queue_deep THEN "queued_deep" ELSE "new"

\* update_listing_score of the persistence helper
update_listing_score(d, listing_id, site_id, score, queue_deep) ==
    {IF r.listing_id = listing_id /\ r.site_id = site_id
     THEN [r EXCEPT !.suitability_score = Some(score), !.status = QueueStatus(queue_deep)]
     ELSE r : r \in d}

\* _update_listing_score, SQL path:
\* UPDATE ... SET suitability_score=?, status=COALESCE(status, ?)
\* WHERE listing_id=? AND site_id=?
UpdateScoreSql(d, listing_id, site_id, score, queue_deep) ==
    {IF r.listing_id = listing_id /\ r.site_id = site_id
     THEN [r EXCEPT !.suitability_score = Some(score),
                    !.status = IF @ = "" THEN QueueStatus(queue_deep) ELSE @]
     ELSE r : r \in d}

\* save_progress: the record that overwrites the progress file
save_progress(phase, processed_count, total_listings, deep_scanned, total_deep) ==
    [phase |-> phase, processed_count |-> processed_count,
     total_listings |-> total_listings, deep_scanned |-> deep_scanned,
     total_deep |-> total_deep]

\* finally: driver.quit()
FinallyMutant(driver) == driver

Finally(driver) == "quit"

\* what deep_enrich returns when nothing can be extracted
NoEnrichment == [description |-> "", pay_rate |-> "", closing_date |-> ""]

\* a row kept from an earlier run, already handled by the user
PriorRow ==
    [NewRow([listing_id |-> "1001", title |-> T_SeniorManager, company |-> T_Acme,
             location |-> T_empty, url |-> T_empty], 1, 1, "applied")
        EXCEPT !.suitability_score = Some(5)]

RunIdle ==
    [pc |-> "idle", driver |-> "none", drivers_made |-> 0, error |-> "",
     nav_drivers |-> {},
     helpers |-> FALSE, criteria_table |-> <<>>,
     site |-> 0, kw |-> 0, keywords_done |-> 0,
     criteria_rows |-> <<>>, seen_ids |-> {},
     inserted |-> 0, skipped_existing |-> 0,
     scored_not |-> 0, scored_mid |-> 0, scored_high |-> 0,
     total_reported |-> 0, page_size |-> 0, total_pages |-> 0,
     cards_found_page1 |-> 0,
     page |-> 0, cards_left |-> 0,
     navs |-> 0, blank |-> FALSE, blank_abort |-> FALSE,
     pages_visited |-> 0, cards_found |-> 0, processed |-> 0,
     last_card |-> [extracted |-> FALSE, listing_id |-> NoId,
                    persisted_before |-> FALSE, seen_before |-> FALSE,
                    scored |-> FALSE, upserts |-> 0, inserted |-> FALSE,
                    score |-> 0, excluded |-> FALSE, queue_deep |-> FALSE,
                    path |-> "", attempts |-> <<>>],
     run_summary |-> [written |-> FALSE, listings_found |-> 0, skipped_duplicates |-> 0],
     deep_limit |-> DEEP_SCAN_LIMIT_PER_KEYWORD, fetched |-> {}, fetch_count |-> 0,
     load_failed |-> FALSE, excluded_ids |-> {}, results |-> {}, scorings |-> 0,
     progress_writes |-> 0,
     progress |-> [phase |-> "", processed_count |-> 0, total_listings |-> 0,
                   deep_scanned |-> 0, total_deep |-> 0],
     to_scan |-> {}, deep_done |-> 0, total_deep |-> 0,
     criteria |-> <<>>,
     last_deep |-> [attempted |-> FALSE, listing_id |-> NoId, base_score |-> 0,
                    title |-> T_empty, enrichment |-> NoEnrichment]]

\* the state before main() is entered; whether utils.db_helpers could be
\* imported and what the Criteria tables hold is fixed for the run
RunInit ==
    /\ \E h \in BOOLEAN, ct \in CriteriaTables :
        run = [RunIdle EXCEPT !.pc = "start", !.helpers = h, !.criteria_table = ct]
    /\ db \in {{}, {PriorRow}}

\* an exception leaves main through the finally block
Raise(r, e) == [r EXCEPT !.pc = "done", !.error = e, !.driver = Finally(r.driver)]

\* driver.get(...): the session the navigation goes through
Get(r) == [r EXCEPT !.nav_drivers = @ \cup {r.driver}]

\* load_criteria: the rows of the Criteria tables, [] when reading them fails
load_criteria(table, ok) == IF ok THEN table ELSE <<>>

\* driver = make_driver(), then sites, keywords and criteria are loaded and
\* the loops start at the first site and keyword
MakeDriver ==
    /\ run.pc = "start"
    /\ \E ok \in BOOLEAN :
        run' = [run EXCEPT !.pc = "keyword", !.driver = "open",
                           !.drivers_made = @ + 1, !.site = 1, !.kw = 1,
                           !.criteria = load_criteria(run.criteria_table, ok)]
    /\ UNCHANGED <<sc, pg, db>>

\* top of the keyword loop: save_progress, then scrape_site_summary up to
\* the first driver.get: counters zeroed, criteria loaded (a failed load
\* keeps the rows read so far)
BeginKeyword ==
    /\ run.pc = "keyword"
    /\ \E failed \in BOOLEAN, rows \in Prefixes(run.criteria_table) :
        /\ ~failed => rows = run.criteria_table
        /\ run' = [run EXCEPT
            !.pc = "nav1", !.criteria_rows = rows, !.seen_ids = {},
            !.load_failed = failed, !.excluded_ids = {}, !.results = {},
            !.scorings = 0,
            !.progress_writes = 1,
            !.progress = save_progress("PASS 1", 0, 0, 0, 0),
            !.inserted = 0, !.skipped_existing = 0,
            !.scored_not = 0, !.scored_mid = 0, !.scored_high = 0,
            !.total_reported = 0, !.page_size = 0, !.total_pages = 0,
            !.cards_found_page1 = 0, !.page = 1, !.cards_left = 0,
            !.navs = 0, !.blank = FALSE, !.blank_abort = FALSE,
            !.pages_visited = 0, !.cards_found = 0, !.processed = 0,
            !.last_card = RunIdle.last_card,
            !.run_summary = RunIdle.run_summary,
            !.fetched = {}, !.fetch_count = 0,
            !.to_scan = {}, !.deep_done = 0, !.total_deep = 0]
    /\ UNCHANGED <<sc, pg, db>>

\* driver.get(url) of page 1, the wait loop and the blank check
NavPage1 ==
    /\ run.pc = "nav1"
    /\ \/ run' = Raise(Get(run), "navigation")
       \/ \E b \in BOOLEAN :
            run' = [Get(run) EXCEPT !.pc = IF b THEN "retry1" ELSE "resolve",
                                    !.navs = 1, !.blank = b, !.pages_visited = 1]
    /\ UNCHANGED <<sc, pg, db>>

\* "Page appears blank; retry once": driver.get(url) again; still blank
\* aborts the keyword with return 0, 0
RetryPage1 ==
    /\ run.pc = "retry1"
    /\ \/ run' = Raise(Get(run), "navigation")
       \/ run' = [Get(run) EXCEPT !.pc = "resolve", !.navs = 2, !.blank = FALSE]
       \/ run' = [Get(run) EXCEPT !.pc = "after1", !.navs = 2, !.blank = TRUE,
                                  !.blank_abort = TRUE,
                                  !.inserted = 0, !.total_reported = 0]
    /\ UNCHANGED <<sc, pg, db>>

RunBanners == {None, Some(0), Some(2)}
RunMetas == {None, Some(1)}
RunPageSizes == {None, Some(0), Some(1)}

\* "Total reported", "Page size & first page cards", the page count and the
\* dedupe preload
ResolveTotals ==
    /\ run.pc = "resolve"
    /\ \E b \in RunBanners, m \in RunMetas, e \in {None},
          ps \in RunPageSizes, n \in 0..MaxRunCards, preload_ok \in BOOLEAN :
        LET total == TotalReported(parse_total_listings(b, m, e), b)
            size == PageSizeUsed(Some(discover_page_size(ps)), n)
        IN  run' = [run EXCEPT
                !.pc = "cards",
                !.total_reported = total,
                !.page_size = size,
                !.cards_found_page1 = n,
                !.total_pages = TotalPages(total, size, n),
                !.seen_ids = IF run.helpers /\ preload_ok
                             THEN seen_ids_for_site(db, run.site) ELSE {},
                !.cards_left = n,
                !.cards_found = n]
    /\ UNCHANGED <<sc, pg, db>>

\* which upsert strategy ends the chain: "A" the first helper call returns
\* true, "B" it returns false or raises and the second call returns true,
\* "direct" both return false or raise (always so with the fallback helper)
UpsertPaths(helpers) == IF helpers THEN {"A", "B", "direct"} ELSE {"direct"}

\* how _update_listing_score writes: through the helper, or by SQL when the
\* helper cannot be imported or raises
UpdatePaths(helpers) == IF helpers THEN {"helper", "sql"} ELSE {"sql"}

\* a score of 3 or more is tallied nowhere
BucketMutant(score) == IF score < 2 THEN "not" ELSE IF score = 2 THEN "mid" ELSE "none"

Bucket(score) == IF score < 2 THEN "not" ELSE IF score = 2 THEN "mid" ELSE "high"

\* what happened to the card handled last
CardGhost(extracted, id, persisted, seen, scored, upserts) ==
    [extracted |-> extracted, listing_id |-> id, persisted_before |-> persisted,
     seen_before |-> seen, scored |-> scored, upserts |-> upserts,
     inserted |-> FALSE, score |-> 0, excluded |-> FALSE, queue_deep |-> FALSE,
     path |-> "", attempts |-> <<>>]

\* the same, for a card that went through scoring
ScoredGhost(g, ok, res, queue_deep) ==
    [g EXCEPT !.inserted = ok, !.score = res.score, !.excluded = res.excluded,
              !.queue_deep = queue_deep]

\* the same, with the upsert calls made for the card
UpsertGhost(g, path, attempts) == [g EXCEPT !.path = path, !.attempts = attempts]

\* every strategy is invoked, whatever the earlier ones returned
UpsertAttemptsMutant(okA, okB) == <<"A", "B", "direct">>

\* the upsert calls made for a card: the first helper call; "if not ok" the
\* second; "if not ok" _direct_upsert_listing_row
UpsertAttempts(okA, okB) ==
    IF okA THEN <<"A">> ELSE IF okB THEN <<"A", "B">> ELSE <<"A", "B", "direct">>

\* _upsert_card on the next card of the page: extraction, the id guard, the
\* seen check, scoring, the three upsert strategies, the score update and
\* the bucket tally
ProcessCard ==
    /\ run.pc = "cards"
    /\ run.cards_left > 0
    /\ \E card \in CardPool, path \in UpsertPaths(run.helpers),
          u \in UpdatePaths(run.helpers), extract_ok \in BOOLEAN :
        LET data == extract_listing_minimal(card)
            id == data.listing_id
            persisted == RowsFor(db, run.site, id) # {}
            seen == id \in run.seen_ids
            r0 == [run EXCEPT !.cards_left = @ - 1, !.processed = @ + 1]
            res == _apply_card_scoring(data, run.criteria_rows, 3)
            queue_deep == (~res.excluded) /\ res.score >= PROVISIONAL_THRESHOLD
            okA == path = "A"
            okB == path = "B"
            direct == _direct_upsert_listing_row(db, data, run.kw, run.site)
            ok == okA \/ okB \/ direct.ok
            attempts == UpsertAttempts(okA, okB)
            upserts == Len(attempts)
            db1 == IF okA \/ okB
                   THEN upsert_listing_minimal(db, data, run.kw, run.site)
                   ELSE direct.db
            db2 == IF u = "helper"
                   THEN update_listing_score(db1, id, run.site, res.score, queue_deep)
                   ELSE UpdateScoreSql(db1, id, run.site, res.score, queue_deep)
        IN  IF ~extract_ok
            THEN /\ run' = [r0 EXCEPT !.last_card = CardGhost(FALSE, NoId, FALSE, FALSE, FALSE, 0)]
                 /\ db' = db
            ELSE IF ~HasListingId(id)
            THEN /\ run' = [r0 EXCEPT !.last_card = CardGhost(TRUE, id, persisted, seen, FALSE, 0)]
                 /\ db' = db
            ELSE IF seen
            THEN /\ run' = [r0 EXCEPT !.skipped_existing = @ + 1,
                                      !.last_card = CardGhost(TRUE, id, persisted, seen, FALSE, 0)]
                 /\ db' = db
            ELSE IF ok
            THEN /\ run' = [r0 EXCEPT
                        !.seen_ids = @ \cup {id},
                        !.inserted = @ + 1,
                        !.scored_not = @ + (IF Bucket(res.score) = "not" THEN 1 ELSE 0),
                        !.scored_mid = @ + (IF Bucket(res.score) = "mid" THEN 1 ELSE 0),
                        !.scored_high = @ + (IF Bucket(res.score) = "high" THEN 1 ELSE 0),
                        !.excluded_ids = @ \cup (IF res.excluded THEN {id} ELSE {}),
                        !.results = @ \cup {<<id, data.title, res>>},
                        !.scorings = @ + 1,
                        !.last_card = UpsertGhost(ScoredGhost(
                            CardGhost(TRUE, id, persisted, seen, TRUE, upserts),
                            TRUE, res, queue_deep), path, attempts)]
                 /\ db' = db2
            ELSE /\ run' = [r0 EXCEPT
                        !.results = @ \cup {<<id, data.title, res>>},
                        !.scorings = @ + 1,
                        !.last_card = UpsertGhost(ScoredGhost(
                            CardGhost(TRUE, id, persisted, seen, TRUE, upserts),
                            FALSE, res, queue_deep), path, attempts)]
                 /\ db' = db1
    /\ UNCHANGED <<sc, pg>>

\* the last page the remaining-pages loop reaches is total_pages - 1
LastPageMutant(total_pages) == total_pages - 1

\* for p in range(2, total_pages + 1)
LastPage(total_pages) == total_pages

\* "Remaining pages": driver.get(urlp), the wait loop and the cards of the
\* page; a page that renders blank is walked past like one without cards
NavNextPage ==
    /\ run.pc = "cards"
    /\ run.cards_left = 0
    /\ run.page < LastPage(run.total_pages)
    /\ \/ run' = Raise(Get(run), "navigation")
       \/ \E b \in BOOLEAN, n \in 0..MaxRunCards :
            /\ b => n = 0
            /\ run' = [Get(run) EXCEPT
                !.page = @ + 1, !.navs = 1, !.blank = b,
                !.pages_visited = @ + 1,
                !.cards_left = n, !.cards_found = @ + n]
    /\ UNCHANGED <<sc, pg, db>>

\* "Final summary for this keyword": return inserted, total_reported
FinishSummary ==
    /\ run.pc = "cards"
    /\ run.cards_left = 0
    /\ run.page >= LastPage(run.total_pages)
    /\ run' = [run EXCEPT !.pc = "after1"]
    /\ UNCHANGED <<sc, pg, db>>

\* select_for_deep_scan: the listing ids of the site and keyword whose score
\* reaches the threshold and whose description is empty
select_for_deep_scan(d, site_id, keyword_id, threshold) ==
    {r.listing_id : r \in {x \in d :
        /\ x.site_id = site_id
        /\ x.keyword_id = keyword_id
        /\ ~IsNone(x.suitability_score)
        /\ Val(x.suitability_score) >= threshold
        /\ x.description = ""}}

\* LIMIT is left out of the query
LimitedToMutant(S, limit) == {S}

\* ORDER BY captured_at DESC LIMIT ?: the lists the query can return
LimitedTo(S, limit) ==
    {T \in SUBSET S : Cardinality(T) = Min2(limit, Cardinality(S))}

\* skipped_duplicates=max(total_reported - inserted, 0)
skipped_duplicates(total_reported, inserted) == Max2(total_reported - inserted, 0)

\* write_run_summary: the row added to Search_Run_Summary
write_run_summary(listings_found, skipped) ==
    [written |-> TRUE, listings_found |-> listings_found, skipped_duplicates |-> skipped]

\* the keyword loop is left for the next site after each keyword
NextIterationMutant(r) ==
    IF r.site < NumSites + 1
    THEN [r EXCEPT !.pc = "keyword", !.kw = 1, !.site = @ + 1, !.keywords_done = @ + 1]
    ELSE [r EXCEPT !.pc = "done", !.keywords_done = @ + 1, !.driver = Finally(r.driver)]

\* the next iteration of the keyword loop, then of the site loop; after the
\* last one the finally block ends the run
NextIteration(r) ==
    IF r.kw < NumKeywords
    THEN [r EXCEPT !.pc = "keyword", !.kw = @ + 1, !.keywords_done = @ + 1]
    ELSE IF r.site < NumSites
    THEN [r EXCEPT !.pc = "keyword", !.kw = 1, !.site = @ + 1, !.keywords_done = @ + 1]
    ELSE [r EXCEPT !.pc = "done", !.keywords_done = @ + 1, !.driver = Finally(r.driver)]

\* after scrape_site_summary returns: bucket recount, run summary, progress,
\* then the selection for the deep scan
AfterPass1 ==
    /\ run.pc = "after1"
    /\ \E to_scan \in LimitedTo(
                select_for_deep_scan(db, run.site, run.kw, DEEP_SCAN_THRESHOLD),
                run.deep_limit) :
        LET r1 == [run EXCEPT
                    !.run_summary = write_run_summary(run.total_reported,
                        skipped_duplicates(run.total_reported, run.inserted)),
                    !.progress_writes = @ + 1,
                    !.progress = save_progress("PASS 1", run.inserted,
                                               run.total_reported, 0, 0),
                    !.to_scan = to_scan]
        IN  run' = IF to_scan = {}
                  THEN NextIteration([r1 EXCEPT !.total_deep = 0])
                  ELSE [r1 EXCEPT !.pc = "deep",
                                  !.total_deep = Cardinality(to_scan),
                                  !.deep_done = 0]
    /\ UNCHANGED <<sc, pg, db>>

\* save_progress at the top of the deep-scan loop body
DeepProgress(r) ==
    [r EXCEPT !.progress_writes = @ + 1,
              !.progress = save_progress("PASS 2", r.inserted, r.total_reported,
                                         r.deep_done, r.total_deep)]

\* driver.get(url) of the detail page of a listing
Fetch(r, listing_id) ==
    [Get(r) EXCEPT !.fetched = @ \cup {listing_id}, !.fetch_count = @ + 1]

\* the first listing of the deep scan: save_progress, driver.get(url), then
\* adapter.deep_enrich(site_cfg, html), a method no adapter class defines
DeepScanListing ==
    /\ run.pc = "deep"
    /\ \E id \in run.to_scan :
        LET r1 == Fetch(DeepProgress(run), id)
        IN  \/ run' = Raise(r1, "navigation")
            \/ run' = Raise(r1, "deep_enrich")
    /\ UNCHANGED <<sc, pg, db>>

Init == RunInit /\ sc = ScIdle /\ pg = PgIdle

Next ==
    \/ MakeDriver
    \/ BeginKeyword
    \/ NavPage1
    \/ RetryPage1
    \/ ResolveTotals
    \/ ProcessCard
    \/ NavNextPage
    \/ FinishSummary
    \/ AfterPass1
    \/ DeepScanListing

Spec == Init /\ [][Next]_vars

(***************************************************************************)
(* The scoring pass on reordered criteria: _apply_card_scoring is applied  *)
(* to a list of criteria rows, then to the lists obtained from it by       *)
(* exchanging two neighbouring rows or the two items of a row.  Deltas and *)
(* bounds are whole numbers.                                               *)
(***************************************************************************)
MaxOrderRows == 2       \* criteria rows of a reordered list

OrderHeaders ==
    {Criterion("title", "contains", Some(ToFloat(2)), Some(ToFloat(1))),
     Criterion("title", "contains", Some(ToFloat(4)), Some(ToFloat(5)))}

OrderItems ==
    {Item(T_manager, i, 0) : i \in {"minimum", "maximum", "increase", "exclude"}}
        \cup {Item(T_Manager, "numeric", ToFloat(-2))}

\* a criteria row with two different items
OrderRows ==
    {[h EXCEPT !.items = <<i[1], i[2]>>] :
        h \in OrderHeaders,
        i \in {p \in OrderItems \X OrderItems : p[1] # p[2]}}

OrderLists ==
    UNION {[1..n -> OrderRows] : n \in 1..MaxOrderRows}

\* the list with elements k and k + 1 exchanged
SwapAt(seq, k) ==
    [i \in 1..Len(seq) |->
        IF i = k THEN seq[k + 1] ELSE IF i = k + 1 THEN seq[k] ELSE seq[i]]

OrderListing == Listing(T_SeniorManager, T_Acme)

\* (final_score, excluded) of the pass
OrderResult(rows) ==
    LET res == _apply_card_scoring(OrderListing, rows, BASE_ENTRY_SCORE)
    IN  [score |-> res.score, excluded |-> res.excluded]

NoResult == [score |-> 0, excluded |-> FALSE]

OrderInit ==
    \E rows \in OrderLists :
        sc = [pc |-> "rows", rows |-> rows, permuted |-> FALSE, out |-> NoResult]

\* the pass on the list as loaded
OrderScore ==
    /\ sc.pc = "rows"
    /\ sc' = [sc EXCEPT !.pc = "scored", !.out = OrderResult(sc.rows)]
    /\ UNCHANGED <<pg, run, db>>

\* the pass on the list with two neighbouring rows exchanged
OrderSwapCriteria ==
    /\ sc.pc = "scored"
    /\ \E k \in 1..(Len(sc.rows) - 1) :
        LET rows == SwapAt(sc.rows, k)
        IN  sc' = [sc EXCEPT !.rows = rows, !.permuted = TRUE,
                             !.out = OrderResult(rows)]
    /\ UNCHANGED <<pg, run, db>>

\* the pass on the list with the items of one row exchanged
OrderSwapItems ==
    /\ sc.pc = "scored"
    /\ \E k \in 1..Len(sc.rows) :
        LET rows == [sc.rows EXCEPT ![k].items = SwapAt(@, 1)]
        IN  sc' = [sc EXCEPT !.rows = rows, !.permuted = TRUE,
                             !.out = OrderResult(rows)]
    /\ UNCHANGED <<pg, run, db>>

InitOrder == OrderInit /\ pg = PgIdle /\ run = RunIdle /\ db = {}

NextOrder == OrderScore \/ OrderSwapCriteria \/ OrderSwapItems

SpecOrder == InitOrder /\ [][NextOrder]_vars

(***************************************************************************)
(* The deep scan of one keyword (PASS 2 of main) with an adapter that      *)
(* provides deep_enrich: the loop over the selected listings, started from *)
(* the state PASS 1 leaves behind.                                         *)
(***************************************************************************)
MaxDeep == 6            \* listings selected for the deep scan of the keyword

DeepId(i) == ToString(2000 + i)

\* a stored row of the keyword as PASS 1 leaves it
DeepRow(i, site_id, score) ==
    [NewRow([listing_id |-> DeepId(i), title |-> T_SeniorManager, company |-> T_Acme,
             location |-> T_empty, url |-> T_empty], 1, site_id, "new")
        EXCEPT !.suitability_score = Some(score)]

\* deep_enrich of the adapter: description, pay text and closing-date text,
\* each '' when it cannot be extracted
Enrichments ==
    {NoEnrichment,
     [description |-> "Lead a team of five", pay_rate |-> "$50 per hour",
      closing_date |-> ""]}

\* apply_criteria_score: "for field, terms in criteria" unpacks each row into
\* two names; a row of load_criteria is a dict of eight keys, so the first
\* row raises ValueError; without rows the base score is returned
apply_criteria_score(base_score, criteria, listing) ==
    IF criteria # <<>>
    THEN [raised |-> TRUE, score |-> base_score]
    ELSE [raised |-> FALSE, score |-> base_score]

\* UPDATE Job_Listings SET description, pay_rate, closing_date,
\* suitability_score WHERE listing_id = ?
update_listing_enrichment(d, listing_id, enrichment, new_score) ==
    {IF r.listing_id = listing_id
     THEN [r EXCEPT !.description = enrichment.description,
                    !.pay_rate = enrichment.pay_rate,
                    !.closing_date = enrichment.closing_date,
                    !.suitability_score = Some(new_score)]
     ELSE r : r \in d}

\* the checkpoint is written on every 5th item only
IsCheckpointMutant(deep_done, total_deep) == deep_done % 5 = 0

\* if deep_done % 5 == 0 or deep_done == total_deep
IsCheckpoint(deep_done, total_deep) == deep_done % 5 = 0 \/ deep_done = total_deep

\* base_score = row[2] or config.BASE_ENTRY_SCORE
StoredOrBase(score) ==
    IF IsNone(score) \/ Val(score) = 0 THEN BASE_ENTRY_SCORE ELSE Val(score)

\* config.DEEP_SCAN_LIMIT_PER_KEYWORD as shipped, and a lower setting
DeepLimits == {DEEP_SCAN_LIMIT_PER_KEYWORD, 3}

\* PASS 1 of the first keyword has stored n listings scoring at or above the
\* threshold; another site may hold a row with the id of the first of them
DeepInit ==
    \E n \in 1..MaxDeep, crit \in CriteriaTables, other \in BOOLEAN,
       score \in {DEEP_SCAN_THRESHOLD, 5}, limit \in DeepLimits :
        /\ db = {DeepRow(i, 1, score) : i \in 1..n}
                    \cup (IF other THEN {DeepRow(1, 2, BASE_ENTRY_SCORE)} ELSE {})
        /\ \E to_scan \in LimitedTo(
                    select_for_deep_scan(db, 1, 1, DEEP_SCAN_THRESHOLD), limit) :
            run = [RunIdle EXCEPT
                    !.pc = "deep", !.driver = "open", !.drivers_made = 1,
                    !.site = 1, !.kw = 1, !.criteria_table = crit,
                    !.criteria = crit, !.inserted = n, !.total_reported = n,
                    !.progress_writes = 2,
                    !.progress = save_progress("PASS 1", n, n, 0, 0),
                    !.run_summary = write_run_summary(n, skipped_duplicates(n, n)),
                    !.deep_limit = limit,
                    !.to_scan = to_scan,
                    !.total_deep = Cardinality(to_scan)]

\* one iteration of "for (listing_id, url) in to_scan": save_progress,
\* driver.get(url), deep_enrich, the stored title/location/score, the new
\* score, update_listing_enrichment, then the checkpoint
DeepEnrichListing ==
    /\ run.pc = "deep"
    /\ run.to_scan # {}
    /\ \E id \in run.to_scan :
        LET r1 == Fetch(DeepProgress(run), id)
        IN  \/ /\ run' = Raise(r1, "navigation")
               /\ db' = db
            \/ \E e \in Enrichments, row \in {r \in db : r.listing_id = id} :
                LET base_score == StoredOrBase(row.suitability_score)
                    listing == [title |-> row.title, location |-> row.location,
                                description |-> e.description]
                    new == apply_criteria_score(base_score, run.criteria, listing)
                    done == run.deep_done + 1
                    r2 == [r1 EXCEPT !.last_deep =
                                [attempted |-> TRUE, listing_id |-> id,
                                 base_score |-> base_score, title |-> row.title,
                                 enrichment |-> e]]
                IN  IF new.raised
                    THEN /\ run' = Raise(r2, "apply_criteria_score")
                         /\ db' = db
                    ELSE /\ db' = update_listing_enrichment(db, id, e, new.score)
                         /\ run' = [r2 EXCEPT
                                !.to_scan = @ \ {id},
                                !.deep_done = done,
                                !.progress_writes =
                                    IF IsCheckpoint(done, run.total_deep)
                                    THEN @ + 1 ELSE @,
                                !.progress =
                                    IF IsCheckpoint(done, run.total_deep)
                                    THEN save_progress("PASS 2", run.inserted,
                                            run.total_reported, done, run.total_deep)
                                    ELSE @]
    /\ UNCHANGED <<sc, pg>>

\* the list is exhausted: on to the next keyword, site, or the end of the run
DeepEnd ==
    /\ run.pc = "deep"
    /\ run.to_scan = {}
    /\ run' = NextIteration(run)
    /\ UNCHANGED <<sc, pg, db>>

InitDeep == DeepInit /\ sc = ScIdle /\ pg = PgIdle

NextDeep == DeepEnrichListing \/ DeepEnd

SpecDeep == InitDeep /\ [][NextDeep]_vars

SetMin(S) == CHOOSE x \in S : \A y \in S : x <= y
SetMax(S) == CHOOSE x \in S : \A y \in S : x >= y


InitScoring == ScInit /\ pg = PgIdle /\ run = RunIdle /\ db = {}

SpecScoring == InitScoring /\ [][NextScoring]_vars

C2_FloorAlwaysHolds ==
    (sc.pc = "done" /\ sc.floors # {}) =>
        ToFloat(Val(sc.out).score) >= SetMax(sc.floors)

\* C2 (amended): whenever a floor bound registered during the pass, the
\* returned score is at least the largest registered floor value rounded to
\* the nearest integer (ties to even).
C2_FloorAfterRounding ==
    (sc.pc = "done" /\ sc.floors # {}) =>
        Val(sc.out).score >= RoundHalfEven(SetMax(sc.floors))

\* C2 witness: a ceiling below the largest floor registered in the same pass
\* and the running score was below that floor.
C2_Witness ==
    /\ sc.pc = "done"
    /\ sc.floors # {}
    /\ sc.ceilings # {}
    /\ SetMin(sc.ceilings) < SetMax(sc.floors)
    /\ sc.st.score < SetMax(sc.floors)

\* C13: when exactly one item matched and its effect is 'decrease', the
\* returned score is the base score plus the criterion's decrease delta,
\* rounded, and the listing is not excluded.
C13_SingleDecrease ==
    (sc.pc = "done" /\ sc.hits = "one decrease") =>
        /\ Val(sc.out).score = RoundHalfEven(ToFloat(3) + Val(sc.hit_dec))
        /\ ~Val(sc.out).excluded

\* C13 witness: base 3, delta -2.0, value 'manager' against the title
\* 'Senior Manager' gave 1, not excluded.
C13_Witness ==
    /\ sc.pc = "done"
    /\ sc.hits = "one decrease"
    /\ sc.hit_dec = Some(-4)
    /\ sc.listing.title = T_SeniorManager
    /\ Val(sc.out).score = 1
    /\ ~Val(sc.out).excluded

\* C23: a matched 'exclude' item sets excluded and leaves the running score
\* and the registered bounds as they are, so the final score is the one the
\* pass returns without the item; excluded, once set, is never reset.
C23_ExcludeKeepsScore ==
    [][/\ sc.st.excluded => sc'.st.excluded
       /\ (~sc.st.excluded /\ sc'.st.excluded) =>
            /\ sc'.st.score = sc.st.score
            /\ sc'.st.enforce_min_after = sc.st.enforce_min_after
            /\ sc'.st.enforce_max_after = sc.st.enforce_max_after
       /\ sc.pc = "items" =>
            \A it \in ItemPool :
                (it.impact = "exclude" /\ ItemMatches(sc.listing, Val(sc.c), it)) =>
                    LET nx == ApplyImpact(sc.st, Val(sc.c), it)
                    IN  /\ nx.excluded
                        /\ ScoreResult(nx).score = ScoreResult(sc.st).score]_vars

\* C23 witness: an 'exclude' and an 'increase' matched in one pass; the
\* result is excluded with the score 3 + 1.
C23_Witness ==
    /\ sc.pc = "done"
    /\ Val(sc.out).excluded
    /\ Val(sc.out).score = 4
    /\ sc.nreasons = 2
    /\ sc.ceilings = {}
    /\ sc.floors = {}

\* C24 (as stated): a matched item adds one reason string, whatever its
\* effect; here for the first item of the pass that matches.
C24_MatchAddsReason ==
    [][(sc.hits = "none" /\ sc'.hits # "none") =>
            sc'.nreasons = sc.nreasons + 1]_vars

InitTotals == PgInit /\ sc = ScIdle /\ run = RunIdle /\ db = {}

SpecTotals == InitTotals /\ [][NextTotals]_vars

\* the least n with n * d >= t
CeilDiv(t, d) == CHOOSE n \in 0..t : n * d >= t /\ \A k \in 0..(n - 1) : k * d < t

\* C8: for every total_reported > 0 and every discovered page size (absent,
\* zero or positive) the page size used is >= 1 and total_pages is
\* ceil(total_reported / page_size).
C8_PageCountIsCeiling ==
    pg.pc = "resolved" =>
        /\ pg.page_size >= 1
        /\ pg.total_reported > 0 =>
              pg.total_pages = CeilDiv(pg.total_reported, pg.page_size)

\* C8 witness: 47 listings reported with an embedded page size of 22 give 3
\* pages.
C8_Witness ==
    /\ pg.pc = "resolved"
    /\ pg.total_reported = 47
    /\ pg.embedded_page_size = Some(22)
    /\ pg.page_size = 22
    /\ pg.total_pages = 3

\* the first source, in priority order, that yields a non-zero number
FirstNonZero(sources) ==
    IF \E i \in 1..Len(sources) : ~IsNone(sources[i]) /\ Val(sources[i]) # 0
    THEN Val(sources[CHOOSE i \in 1..Len(sources) :
                /\ ~IsNone(sources[i]) /\ Val(sources[i]) # 0
                /\ \A j \in 1..(i - 1) : IsNone(sources[j]) \/ Val(sources[j]) = 0])
    ELSE 0

\* C10 (as claimed): the resolved total is the value of the highest-priority
\* source among banner, meta phrase, embedded total and number of visible
\* cards that yields a non-zero number, and 0 only when none does.
C10_FirstNonZeroSourceWins ==
    pg.pc = "resolved" =>
        pg.total_reported =
            FirstNonZero(<<pg.banner, pg.meta, pg.embedded, Some(pg.cards_found_page1)>>)

(***************************************************************************)
(* Claims about the run.                                                   *)
(***************************************************************************)

\* C3 (as stated): a card whose (site, listing id) is already persisted,
\* whether or not its id is in the seen set, leaves exactly one row for the
\* key, adds one to the skipped counter and leaves the inserted counter alone.
C3_PersistedCardCountsAsSkip ==
    [][(/\ run.pc = "cards"
        /\ run'.processed = run.processed + 1
        /\ run'.last_card.extracted
        /\ run'.last_card.listing_id # NoId
        /\ run'.last_card.persisted_before)
       => (/\ Cardinality(RowsFor(db', run.site, run'.last_card.listing_id)) = 1
           /\ run'.skipped_existing = run.skipped_existing + 1
           /\ run'.inserted = run.inserted)]_vars

\* C4: a card that yields no listing id is never scored and never reaches an
\* upsert call, and no stored row has an empty listing id.
C4_NoIdCardNeverScoredNorStored ==
    /\ (run.last_card.listing_id = NoId =>
            ~run.last_card.scored /\ run.last_card.upserts = 0)
    /\ \A r \in db : r.listing_id # NoId

\* a card without id was extracted and dropped while rows were being stored
C4_Witness ==
    /\ run.pc = "cards"
    /\ run.last_card.extracted
    /\ run.last_card.listing_id = NoId
    /\ run.inserted > 0

\* C5 (as stated): on every page of the traversal, a page that renders blank
\* after its first navigation is navigated once more (unless the navigation
\* itself ends the run) before anything else happens.
C5_BlankPageRetriedOnce ==
    [][(/\ run.pc \in {"retry1", "cards"}
        /\ run.blank
        /\ run.navs = 1)
       => (/\ run'.page = run.page
           /\ run'.navs = 2 \/ run'.pc = "done")]_vars

\* C6 (as stated): no failure inside a keyword's processing ends the run:
\* when the run is over every site and keyword has been processed.
C6_KeywordFailureNeverEndsRun ==
    run.pc = "done" => run.keywords_done = NumSites * NumKeywords

\* C7: one rendering session is created per run, every navigation goes
\* through it while it is open, and the run ends exactly when it is torn
\* down, on completion as on failure.
C7_OneSessionTornDown ==
    /\ run.drivers_made <= 1
    /\ run.pc # "start" => run.drivers_made = 1
    /\ run.nav_drivers \subseteq {"open"}
    /\ run.pc = "done" <=> run.driver = "quit"

\* a run that a failed navigation ended, with its session torn down
C7_Witness ==
    /\ run.pc = "done"
    /\ run.error = "navigation"
    /\ run.keywords_done > 0
    /\ run.nav_drivers = {"open"}
    /\ run.driver = "quit"

\* C9 (as stated): with a positive reported total and no blank abort, the
\* cards passed to the per-card pipeline number exactly the reported total.
C9_CardsEqualTotalReported ==
    (run.pc = "after1" /\ run.total_reported > 0 /\ ~run.blank_abort)
        => run.processed = run.total_reported

\* C9 (amended): with a positive reported total and no blank abort, every
\* page 1..total_pages was visited once and every card found on them was
\* passed to the per-card pipeline once.
C9_EveryPageAndCardProcessed ==
    (run.pc = "after1" /\ run.total_reported > 0 /\ ~run.blank_abort)
        => /\ run.pages_visited = run.total_pages
           /\ run.page = run.total_pages
           /\ run.processed = run.cards_found

\* a two-page traversal whose cards were all processed
C9_Witness ==
    /\ run.pc = "after1"
    /\ ~run.blank_abort
    /\ run.total_reported = 2
    /\ run.total_pages = 2
    /\ run.processed = 2

\* C11 (as stated): no listing fetched for the deep scan of a keyword was
\* matched by an 'exclude' item when the keyword's traversal scored it.
C11_ExcludedNeverDeepEnriched ==
    run.pc = "deep" => run.to_scan \cap run.excluded_ids = {}

C14_FailedLoadScoresBase ==
    (run.load_failed /\ run.last_card.scored) =>
        /\ run.last_card.score = BASE_ENTRY_SCORE
        /\ ~run.last_card.excluded

\* C16 (as stated): after a new row was inserted for a card, the id is in
\* the seen set, the stored score is the preliminary score and the stored
\* status is the enqueue decision.
C16_InsertPersistsScoreAndDecision ==
    (run.pc = "cards" /\ run.last_card.inserted /\ ~run.last_card.persisted_before) =>
        /\ run.last_card.listing_id \in run.seen_ids
        /\ \A r \in RowsFor(db, run.site, run.last_card.listing_id) :
            /\ r.suitability_score = Some(run.last_card.score)
            /\ r.status = QueueStatus(run.last_card.queue_deep)

\* C19 (as stated): when the traversal of a keyword returns, the progress
\* file has been written once for the keyword reset and once for every
\* results page traversed.
C19_OneCheckpointPerPage ==
    (run.pc = "after1" /\ ~run.blank_abort) =>
        run.progress_writes = 1 + run.pages_visited

\* C20 (as stated): the deep-enrich operation never raises, so the run never
\* ends on an error of that call.
C20_DeepEnrichNeverRaises ==
    run.error # "deep_enrich"

EngineScore(g, criteria) ==
    _apply_card_scoring(
        [title |-> g.title, company |-> T_empty, location |-> T_empty, url |-> T_empty],
        criteria, g.base_score).score

\* C17 (as stated): once a listing was enriched, its stored score is what
\* the Scoring Engine returns for it with the stored score as base, and the
\* extracted description, pay text and closing-date text are stored with it.
C17_RescoredWithScoringEngine ==
    run.last_deep.attempted =>
        \A r \in RowsFor(db, run.site, run.last_deep.listing_id) :
            /\ r.suitability_score = Some(EngineScore(run.last_deep, run.criteria))
            /\ r.description = run.last_deep.enrichment.description
            /\ r.pay_rate = run.last_deep.enrichment.pay_rate
            /\ r.closing_date = run.last_deep.enrichment.closing_date

\* C18: after every 5th enriched listing and after the last one the progress
\* file holds a PASS 2 record with the updated deep-scanned count; when the
\* deep scan of a keyword with candidates has finished, it holds
\* deep_scanned = total_deep.
C18_CheckpointEveryFiveAndAtEnd ==
    /\ (run.deep_done > 0 /\ IsCheckpoint(run.deep_done, run.total_deep)) =>
            /\ run.progress.phase = "PASS 2"
            /\ run.progress.deep_scanned = run.deep_done
    /\ (run.pc # "deep" /\ run.error = "" /\ run.total_deep >= 1) =>
            /\ run.progress.phase = "PASS 2"
            /\ run.progress.deep_scanned = run.total_deep
            /\ run.progress.total_deep = run.total_deep

\* a deep scan of more than five listings that ran to its end
C18_Witness ==
    /\ run.pc # "deep"
    /\ run.error = ""
    /\ run.total_deep > 5
    /\ run.deep_done = run.total_deep
    /\ run.progress.deep_scanned = run.total_deep

\* C30: exchanging two neighbouring criteria rows, or the items of a row,
\* leaves the final score and the excluded flag of the pass as they were;
\* every permutation is a chain of such exchanges.
C30_OrderIndependent ==
    [][sc.pc = "scored" => sc'.out = sc.out]_vars

\* C30 witness: two rows with different ceilings and floors were exchanged
\* and the pass returned an excluded listing with a bounded score.
C30_Witness ==
    /\ sc.pc = "scored"
    /\ sc.permuted
    /\ Len(sc.rows) = 2
    /\ sc.rows[1].max # sc.rows[2].max
    /\ \A k \in 1..2 : sc.rows[k].items[1].impact = "maximum"
    /\ sc.rows[1].items[2].impact = "exclude"
    /\ sc.out = [score |-> 5, excluded |-> TRUE]

IsPrefix(a, b) == Len(a) <= Len(b) /\ a = SubSeq(b, 1, Len(a))

KeysOf(d) == {<<r.site_id, r.listing_id>> : r \in d}

\* C22: for a card that is not in the seen set the upsert calls are made in
\* the order A, B, raw insert; the last call made is the one that ended the
\* chain, a successful helper call is followed by no other; at most one row
\* is added, under the site and the extracted listing id.
C22_UpsertStrategiesInOrder ==
    [][(run'.processed = run.processed + 1 /\ run'.last_card.scored) =>
            LET g == run'.last_card
            IN  /\ ~g.seen_before
                /\ g.attempts # <<>>
                /\ IsPrefix(g.attempts, <<"A", "B", "direct">>)
                /\ g.attempts[Len(g.attempts)] = g.path
                /\ g.path \in {"A", "B"} => g.inserted
                /\ KeysOf(db') \ KeysOf(db) \subseteq {<<run.site, g.listing_id>>}
                /\ Cardinality(db') <= Cardinality(db) + 1]_vars

\* C22 witness: the first helper call failed, the second stored the row and
\* the raw insert was not made.
C22_Witness ==
    /\ run.last_card.scored
    /\ run.last_card.path = "B"
    /\ run.last_card.attempts = <<"A", "B">>
    /\ run.last_card.inserted
    /\ ~run.last_card.persisted_before
    /\ RowsFor(db, run.site, run.last_card.listing_id) # {}

\* C25: the deep scan of a keyword fetches no more detail pages than the
\* configured limit, and no listing twice.
C25_DeepScanBounded ==
    /\ run.total_deep <= run.deep_limit
    /\ run.fetch_count <= run.deep_limit
    /\ run.fetch_count = Cardinality(run.fetched)

\* C25 witness: more listings qualified than the limit allows and the deep
\* scan ended after as many fetches as the limit.
C25_Witness ==
    /\ run.deep_limit = 3
    /\ Cardinality({r \in db : r.site_id = 1 /\ r.keyword_id = 1}) > 3
    /\ run.to_scan = {}
    /\ run.fetch_count = 3
    /\ run.error = ""

\* C26 (as stated): the duplicates-skipped value written to the run summary
\* is the number of cards the traversal skipped as already seen.
C26_SummaryCountsSkippedCards ==
    run.run_summary.written =>
        run.run_summary.skipped_duplicates = run.skipped_existing

\* C27 (as stated): the enrichment update of a listing leaves the rows of
\* every other site as they are.
C27_OtherSitesUntouched ==
    [][\A r \in db : r.site_id # run.site => r \in db']_vars

\* C28: a processed card adds one to at most one of inserted and
\* skipped_existing; when the traversal of a keyword ends, inserted plus
\* skipped is at most the number of cards processed and the three bucket
\* counts add up to inserted.
C28_CountersConsistent ==
    [][/\ run'.processed = run.processed + 1 =>
            /\ run'.inserted - run.inserted \in {0, 1}
            /\ run'.skipped_existing - run.skipped_existing \in {0, 1}
            /\ (run'.inserted - run.inserted)
                    + (run'.skipped_existing - run.skipped_existing) <= 1
       /\ run'.pc = "after1" =>
            /\ run'.inserted + run'.skipped_existing <= run'.processed
            /\ run'.scored_not + run'.scored_mid + run'.scored_high = run'.inserted]_vars

\* C28 witness: a traversal ended with one card inserted and one skipped.
C28_Witness ==
    /\ run.pc = "after1"
    /\ run.processed = 2
    /\ run.inserted = 1
    /\ run.skipped_existing = 1
    /\ run.scored_high = 1

\* C29 (as stated): a card whose listing id was on an earlier card of the
\* traversal that went to the upsert calls finds the id in the seen set, is
\* counted as skipped and makes no upsert call.
C29_LaterOccurrenceSkipped ==
    [][(/\ run'.processed = run.processed + 1
        /\ run'.last_card.extracted
        /\ \E t \in run.results : t[1] = run'.last_card.listing_id) =>
            /\ run'.last_card.seen_before
            /\ run'.last_card.upserts = 0
            /\ run'.skipped_existing = run.skipped_existing + 1
            /\ run'.inserted = run.inserted]_vars

====
